---- MODULE Spec2Model ----
(***************************************************************************)
(* Model of theano/tensor/nnet/spatialtf.py: the spatial transformer        *)
(* (affine grid generation, bilinear sampling with three border modes and   *)
(* the backward passes).                                                    *)
(*                                                                          *)
(* floatX values are modelled as exact rationals <<n, d>> (d > 0, lowest    *)
(* terms) extended with the IEEE special values the code can produce:       *)
(* <<1, 0>> = +inf, <<-1, 0>> = -inf, <<0, 0>> = NaN.  Rounding of floatX   *)
(* is not modelled.  int64 is modelled as a two's complement integer of     *)
(* IndexBits bits.  Tensors are functions over 0-based index ranges.        *)
(***************************************************************************)
EXTENDS Integers, Sequences, FiniteSets, TLC

VARIABLES
    pc,             \* position in the evaluation of the graph
    inp_ndim,       \* rank of inp
    theta_ndim,     \* rank of theta
    inp_shape,      \* <<num_batch, num_channels, height, width>>
    inp,            \* inp[b][c][h][w]
    theta,          \* theta[b][r][k], b in 0..theta batch - 1
    scale_height,
    scale_width,
    border_mode,    \* the border_mode argument of the entry point called
    op_border_mode, \* the border mode of the sampler Op that spatialtf built
    out_dims,       \* <<num_batch, num_channels, out_height, out_width>>
    mesh,           \* the grid built by _meshgrid in the last grid call
    grid,           \* grid[r][b][p], p = i * out_width + j
    grid_shape,     \* <<2, num_batch, out_height, out_width>>
    nbhd,           \* the sampler's intermediate tensors (indices, weights)
    output,         \* output[b][c][p]
    grad_out,       \* grad_out[b][c][p]
    grad_inp,       \* grad_inp[b][c][h][w]
    grad_grid,      \* grad_grid[r][b][p]
    grad_theta,     \* grad_theta[b][r][k]
    nan_cast        \* what this platform's cast of a non-finite value gives

vars == <<pc, inp_ndim, theta_ndim, inp_shape, inp, theta, scale_height,
          scale_width, border_mode, op_border_mode, out_dims, mesh, grid, grid_shape, nbhd,
          output, grad_out, grad_inp, grad_grid, grad_theta, nan_cast>>

(***************************************************************************)
(* Bounds of the model.                                                     *)
(***************************************************************************)
MaxBatch == 2       \* num_batch and theta's batch size range over 1..MaxBatch
MaxChan == 2        \* num_channels ranges over 1..MaxChan
MaxDim == 3         \* height and width of inp range over 1..MaxDim
MaxSW == 4          \* width of inp in direct sampler calls
MaxSH == 2          \* height of inp in direct sampler calls
MaxLocs == 2        \* output locations per direct sampler call
IndexBits == 16     \* width of the modelled int64

(***************************************************************************)
(* floatX arithmetic.                                                       *)
(***************************************************************************)
Abs(n) == IF n < 0 THEN -n ELSE n

Sgn(n) == IF n < 0 THEN -1 ELSE IF n > 0 THEN 1 ELSE 0

RECURSIVE GCD(_, _)
GCD(a, b) == IF b = 0 THEN a ELSE GCD(b, a % b)

NaN == <<0, 0>>

\* n / d as a floatX value; d = 0 gives the IEEE result of a division by zero
Q(n, d) ==
    IF d = 0 THEN <<Sgn(n), 0>>
    ELSE LET g == GCD(Abs(n), Abs(d))
         IN  <<Sgn(d) * (n \div g), Abs(d) \div g>>

FromInt(n) == <<n, 1>>

IsFinite(a) == a[2] # 0

IsNaN(a) == a = NaN

FAdd(a, b) ==
    IF IsFinite(a) /\ IsFinite(b) THEN Q(a[1] * b[2] + b[1] * a[2], a[2] * b[2])
    ELSE IF IsNaN(a) \/ IsNaN(b) THEN NaN
    ELSE IF IsFinite(a) THEN b
    ELSE IF IsFinite(b) THEN a
    ELSE IF a = b THEN a ELSE NaN

FNeg(a) == <<-a[1], a[2]>>

FSub(a, b) == FAdd(a, FNeg(b))

FMul(a, b) ==
    IF IsFinite(a) /\ IsFinite(b) THEN Q(a[1] * b[1], a[2] * b[2])
    ELSE IF IsNaN(a) \/ IsNaN(b) \/ a[1] = 0 \/ b[1] = 0 THEN NaN
    ELSE <<Sgn(a[1]) * Sgn(b[1]), 0>>

FDiv(a, b) ==
    IF IsFinite(a) /\ IsFinite(b)
    THEN IF b[1] = 0 THEN <<Sgn(a[1]), 0>> ELSE Q(a[1] * b[2], a[2] * b[1])
    ELSE IF IsNaN(a) \/ IsNaN(b) THEN NaN
    ELSE IF IsFinite(a) THEN FromInt(0)
    ELSE IF IsFinite(b) THEN <<a[1] * (IF b[1] < 0 THEN -1 ELSE 1), 0>>
    ELSE NaN

\* a < b; false when either is NaN
FLt(a, b) ==
    IF IsNaN(a) \/ IsNaN(b) THEN FALSE
    ELSE IF IsFinite(a) /\ IsFinite(b) THEN a[1] * b[2] < b[1] * a[2]
    ELSE IF IsFinite(a) THEN b[1] > 0
    ELSE IF IsFinite(b) THEN a[1] < 0
    ELSE a[1] < b[1]

\* theano.tensor.floor
FFloor(a) == IF IsFinite(a) THEN FromInt(a[1] \div a[2]) ELSE a

\* theano.tensor.clip(x, lo, hi): x < lo ? lo : (x > hi ? hi : x)
FClip(x, lo, hi) == IF FLt(x, lo) THEN lo ELSE IF FLt(hi, x) THEN hi ELSE x

\* theano.tensor.minimum, NaN propagating
FMin(a, b) == IF IsNaN(a) \/ IsNaN(b) THEN NaN ELSE IF FLt(b, a) THEN b ELSE a

\* x % m on floatX: the result has the sign of the divisor, NaN for m = 0
FMod(x, m) ==
    IF ~IsFinite(x) \/ IsNaN(m) \/ m[1] = 0 THEN NaN
    ELSE IF ~IsFinite(m) THEN (IF Sgn(x[1]) * Sgn(m[1]) >= 0 THEN x ELSE m)
    ELSE FSub(x, FMul(m, FFloor(FDiv(x, m))))

\* sum of the floatX values f[i], i in 0..n-1, in index order
RECURSIVE FSum(_, _)
FSum(f, n) == IF n = 0 THEN FromInt(0) ELSE FAdd(FSum(f, n - 1), f[n - 1])

(***************************************************************************)
(* int64 arithmetic.                                                        *)
(***************************************************************************)
IntMin == -(2 ^ (IndexBits - 1))

Wrap(v) == ((v - IntMin) % (2 ^ IndexBits)) + IntMin

\* what a cast of NaN or an infinity to int64 can give, by platform
NonFiniteCasts == {IntMin, 0}

\* theano.tensor.cast(v, 'int64'): truncation toward zero; nf is the
\* platform's result for a value that is not finite
CastInt64(v, nf) ==
    IF ~IsFinite(v) THEN nf
    ELSE IF v[1] >= 0 THEN Wrap(v[1] \div v[2]) ELSE Wrap(-((-v[1]) \div v[2]))

(***************************************************************************)
(* Shapes.                                                                  *)
(***************************************************************************)
Idx(n) == 0 .. (n - 1)

One == FromInt(1)

Zero == FromInt(0)

(***************************************************************************)
(* transformer_grid_impl                                                    *)
(***************************************************************************)
\* arange(num) * step + start, step = (stop - start) / (num - 1)
_linspace(start, stop, num) ==
    LET step == FDiv(FSub(stop, start), FSub(FromInt(num), One))
    IN  [i \in Idx(num) |-> FAdd(FMul(FromInt(i), step), start)]

\* rows x_t_flat, y_t_flat, ones of the (3, height * width) grid
_meshgrid(height, width) ==
    LET lx == _linspace(FromInt(-1), One, width)
        ly == _linspace(FromInt(-1), One, height)
        x_t_flat == [p \in Idx(height * width) |-> FMul(One, lx[p % width])]
        y_t_flat == [p \in Idx(height * width) |-> FMul(ly[p \div width], One)]
        ones == [p \in Idx(height * width) |-> One]
    IN  <<x_t_flat, y_t_flat, ones>>

\* theano.tensor.dot(theta, grid): (Nt, 2, 3) . (3, P) -> (Nt, 2, P)
DotThetaGrid(th, g, P) ==
    [b \in DOMAIN th |->
        [r \in Idx(2) |->
            [p \in Idx(P) |->
                FSum([k \in Idx(3) |-> FMul(th[b][r][k], g[k + 1][p])], 3)]]]

\* result of transformer_grid_impl(theta, out_dims); the final reshape into
\* (2, num_batch, out_height, out_width) raises when the sizes differ
transformer_grid_impl(th, dims) ==
    LET num_batch == dims[1]
        out_height == dims[3]
        out_width == dims[4]
        P == out_height * out_width
        g == _meshgrid(out_height, out_width)
        transformed_grid == DotThetaGrid(th, g, P)
        Nt == Cardinality(DOMAIN th)
    IN  IF 2 * Nt * P # 2 * num_batch * P
        THEN [status |-> "ReshapeError", mesh |-> g, grid |-> <<>>,
              shape |-> <<>>]
        ELSE [status |-> "ok", mesh |-> g,
              grid |-> [r \in Idx(2) |-> [b \in Idx(num_batch) |->
                            [p \in Idx(P) |-> transformed_grid[b][r][p]]]],
              shape |-> <<2, num_batch, out_height, out_width>>]

(***************************************************************************)
(* transformer_sampler_impl                                                 *)
(***************************************************************************)
Modes == {"nearest", "mirror", "wrap"}

\* PixelCoord scaling by the full dimension instead of dimension - 1
PixelCoordFullDim(g, dim_f) == FMul(FDiv(FAdd(g, One), FromInt(2)), dim_f)

\* x = (x + 1) / 2 * (width_f - 1)
PixelCoord(g, dim_f) == FMul(FDiv(FAdd(g, One), FromInt(2)), FSub(dim_f, One))

\* BorderCoord with mirror negating after the modulo: -(v % w) for (-v) % w
BorderCoordNegAfterMod(mode, v_f, dim_f) ==
    IF mode = "nearest" THEN FClip(v_f, Zero, FSub(dim_f, One))
    ELSE IF mode = "mirror"
    THEN LET w == FMul(FromInt(2), FSub(dim_f, One))
         IN  FMin(FMod(v_f, w), FNeg(FMod(v_f, w)))
    ELSE FMod(v_f, dim_f)

\* the border mode applied to a floor coordinate v_f along an axis of size
\* dim_f, before the cast to int64
BorderCoord(mode, v_f, dim_f) ==
    IF mode = "nearest" THEN FClip(v_f, Zero, FSub(dim_f, One))
    ELSE IF mode = "mirror"
    THEN LET w == FMul(FromInt(2), FSub(dim_f, One))
         IN  FMin(FMod(v_f, w), FMod(FNeg(v_f), w))
    ELSE FMod(v_f, dim_f)

\* the four interpolation weights wa, wb, wc, wd of one location
Weights(x, y, x0_f, y0_f, x1_f, y1_f) ==
    [wa |-> FMul(FSub(x1_f, x), FSub(y1_f, y)),
     wb |-> FMul(FSub(x1_f, x), FSub(y, y0_f)),
     wc |-> FMul(FSub(x, x0_f), FSub(y1_f, y)),
     wd |-> FMul(FSub(x, x0_f), FSub(y, y0_f))]

\* the tensors of one output location of batch entry b, given its floor
\* coordinates and its border-adjusted int64 indices
LocIndexed(b, x, y, x0_f, y0_f, x1_f, y1_f, x0, x1, y0, y1, base, dim2) ==
    [b |-> b, x |-> x, y |-> y,
     x0_f |-> x0_f, y0_f |-> y0_f, x1_f |-> x1_f, y1_f |-> y1_f,
     x0 |-> x0, x1 |-> x1, y0 |-> y0, y1 |-> y1,
     idx_a |-> Wrap(Wrap(base + Wrap(y0 * dim2)) + x0),
     idx_b |-> Wrap(Wrap(base + Wrap(y1 * dim2)) + x0),
     idx_c |-> Wrap(Wrap(base + Wrap(y0 * dim2)) + x1),
     idx_d |-> Wrap(Wrap(base + Wrap(y1 * dim2)) + x1),
     w |-> Weights(x, y, x0_f, y0_f, x1_f, y1_f)]

\* LocFloored taking the weights from the border-adjusted coordinates
LocFlooredAdjusted(b, x, y, x0_f, y0_f, x1_f, y1_f, shape, mode, nf) ==
    LocIndexed(b, x, y,
               BorderCoord(mode, x0_f, FromInt(shape[4])),
               BorderCoord(mode, y0_f, FromInt(shape[3])),
               BorderCoord(mode, x1_f, FromInt(shape[4])),
               BorderCoord(mode, y1_f, FromInt(shape[3])),
               CastInt64(BorderCoord(mode, x0_f, FromInt(shape[4])), nf),
               CastInt64(BorderCoord(mode, x1_f, FromInt(shape[4])), nf),
               CastInt64(BorderCoord(mode, y0_f, FromInt(shape[3])), nf),
               CastInt64(BorderCoord(mode, y1_f, FromInt(shape[3])), nf),
               Wrap(b * (shape[4] * shape[3])), shape[4])

LocFloored(b, x, y, x0_f, y0_f, x1_f, y1_f, shape, mode, nf) ==
    LocIndexed(b, x, y, x0_f, y0_f, x1_f, y1_f,
               CastInt64(BorderCoord(mode, x0_f, FromInt(shape[4])), nf),
               CastInt64(BorderCoord(mode, x1_f, FromInt(shape[4])), nf),
               CastInt64(BorderCoord(mode, y0_f, FromInt(shape[3])), nf),
               CastInt64(BorderCoord(mode, y1_f, FromInt(shape[3])), nf),
               Wrap(b * (shape[4] * shape[3])), shape[4])

LocAt(b, x, y, x0_f, y0_f, shape, mode, nf) ==
    LocFloored(b, x, y, x0_f, y0_f, FAdd(x0_f, One), FAdd(y0_f, One),
               shape, mode, nf)

\* the per-location tensors of the sampler, over q = b * P + p
Neighborhood(shape, g, P, mode, nf) ==
    [q \in Idx(shape[1] * P) |->
        LocAt(q \div P,
              PixelCoord(g[0][q \div P][q % P], FromInt(shape[4])),
              PixelCoord(g[1][q \div P][q % P], FromInt(shape[3])),
              FFloor(PixelCoord(g[0][q \div P][q % P], FromInt(shape[4]))),
              FFloor(PixelCoord(g[1][q \div P][q % P], FromInt(shape[3]))),
              shape, mode, nf)]

\* a row index of inp_flat as the gather resolves it: negative indices count
\* from the end; -1 stands for an index out of bounds
GatherRow(idx, rows) ==
    IF 0 <= idx /\ idx < rows THEN idx
    ELSE IF -rows <= idx /\ idx < 0 THEN idx + rows
    ELSE -1

\* inp_flat[idx][c], inp_flat = inp.dimshuffle(0, 2, 3, 1).reshape((-1, C))
InpFlat(im, shape, row, c) ==
    FromInt(im[row \div (shape[3] * shape[4])][c]
              [(row \div shape[4]) % shape[3]][row % shape[4]])

Rows(shape) == shape[1] * shape[3] * shape[4]

\* sum([wa * Ia, wb * Ib, wc * Ic, wd * Id]) at one location and channel
Interpolate(n, im, shape, c) ==
    FAdd(FAdd(FAdd(
        FMul(n.w.wa, InpFlat(im, shape, GatherRow(n.idx_a, Rows(shape)), c)),
        FMul(n.w.wb, InpFlat(im, shape, GatherRow(n.idx_b, Rows(shape)), c))),
        FMul(n.w.wc, InpFlat(im, shape, GatherRow(n.idx_c, Rows(shape)), c))),
        FMul(n.w.wd, InpFlat(im, shape, GatherRow(n.idx_d, Rows(shape)), c)))

\* the gather and the interpolation over the neighbourhoods nb
Sampled(nb, im, shape, gshape) ==
    IF \E q \in DOMAIN nb :
          \E i \in {nb[q].idx_a, nb[q].idx_b, nb[q].idx_c, nb[q].idx_d} :
              GatherRow(i, Rows(shape)) = -1
    THEN [status |-> "IndexError", nbhd |-> nb, output |-> <<>>]
    ELSE [status |-> "ok", nbhd |-> nb,
          output |->
            [shape |-> <<shape[1], shape[2], gshape[3], gshape[4]>>,
             data |-> [b \in Idx(shape[1]) |-> [c \in Idx(shape[2]) |->
                [p \in Idx(gshape[3] * gshape[4]) |->
                    Interpolate(nb[b * gshape[3] * gshape[4] + p], im, shape,
                                c)]]]]]

\* result of transformer_sampler_impl(inp, grid, border_mode)
transformer_sampler_impl(im, shape, g, gshape, mode, nf) ==
    IF mode \notin Modes
    THEN [status |-> "ValueError", nbhd |-> <<>>, output |-> <<>>]
    ELSE Sampled(Neighborhood(shape, g, gshape[3] * gshape[4], mode, nf),
                 im, shape, gshape)

(***************************************************************************)
(* transformer_gradi_impl                                                   *)
(***************************************************************************)
\* corner k of a location: 0, 1, 2, 3 for the gathers Ia, Ib, Ic, Id
CornerIdx(n, k) ==
    IF k = 0 THEN n.idx_a ELSE IF k = 1 THEN n.idx_b
    ELSE IF k = 2 THEN n.idx_c ELSE n.idx_d

CornerW(n, k) ==
    IF k = 0 THEN n.w.wa ELSE IF k = 1 THEN n.w.wb
    ELSE IF k = 2 THEN n.w.wc ELSE n.w.wd

\* acc with w * go[c] added to row `row`, for every channel c
IncRow(acc, row, w, go) ==
    [acc EXCEPT ![row] = [c \in DOMAIN @ |-> FAdd(@[c], FMul(w, go[c]))]]

\* the gradient of the four gathers w.r.t. inp_flat after the first m
\* increments; increment j is corner j \div Qn of location j % Qn
RECURSIVE ScatterAdd(_, _, _, _, _, _)
ScatterAdd(nb, go, rows, C, Qn, m) ==
    IF m = 0 THEN [row \in Idx(rows) |-> [c \in Idx(C) |-> Zero]]
    ELSE IncRow(ScatterAdd(nb, go, rows, C, Qn, m - 1),
                GatherRow(CornerIdx(nb[(m - 1) % Qn], (m - 1) \div Qn), rows),
                CornerW(nb[(m - 1) % Qn], (m - 1) \div Qn),
                go[(m - 1) % Qn])

\* d out / d x and d out / d y of one location and channel
DOutDx(n, im, shape, c) ==
    FAdd(FMul(FSub(InpFlat(im, shape, GatherRow(n.idx_c, Rows(shape)), c),
                   InpFlat(im, shape, GatherRow(n.idx_a, Rows(shape)), c)),
              FSub(n.y1_f, n.y)),
         FMul(FSub(InpFlat(im, shape, GatherRow(n.idx_d, Rows(shape)), c),
                   InpFlat(im, shape, GatherRow(n.idx_b, Rows(shape)), c)),
              FSub(n.y, n.y0_f)))

DOutDy(n, im, shape, c) ==
    FAdd(FMul(FSub(InpFlat(im, shape, GatherRow(n.idx_b, Rows(shape)), c),
                   InpFlat(im, shape, GatherRow(n.idx_a, Rows(shape)), c)),
              FSub(n.x1_f, n.x)),
         FMul(FSub(InpFlat(im, shape, GatherRow(n.idx_d, Rows(shape)), c),
                   InpFlat(im, shape, GatherRow(n.idx_c, Rows(shape)), c)),
              FSub(n.x, n.x0_f)))

\* the gradient w.r.t. grid[r] at one location, chained through
\* x = (x + 1) / 2 * (width_f - 1) and y = (y + 1) / 2 * (height_f - 1)
GradGridAt(n, go, im, shape, r) ==
    IF r = 0
    THEN FMul(FSum([c \in Idx(shape[2]) |->
                        FMul(go[c], DOutDx(n, im, shape, c))], shape[2]),
              FDiv(FSub(FromInt(shape[4]), One), FromInt(2)))
    ELSE FMul(FSum([c \in Idx(shape[2]) |->
                        FMul(go[c], DOutDy(n, im, shape, c))], shape[2]),
              FDiv(FSub(FromInt(shape[3]), One), FromInt(2)))

\* grad_out as rows of channel vectors, one per location q
GradOutFlat(go, shape, P) ==
    [q \in Idx(shape[1] * P) |-> [c \in Idx(shape[2]) |-> go[q \div P][c][q % P]]]

\* the two gradients given the recomputed sampler result
GradsOf(out, acc, goflat, im, shape, P) ==
    [status |-> "ok",
     grad_inp |-> [b \in Idx(shape[1]) |-> [c \in Idx(shape[2]) |->
                     [h \in Idx(shape[3]) |-> [w \in Idx(shape[4]) |->
                        acc[(b * shape[3] + h) * shape[4] + w][c]]]]],
     grad_grid |-> [r \in Idx(2) |-> [b \in Idx(shape[1]) |-> [p \in Idx(P) |->
                      GradGridAt(out.nbhd[b * P + p], goflat[b * P + p], im,
                                 shape, r)]]]]

GradIFrom(out, goflat, im, shape, P) ==
    IF out.status # "ok"
    THEN [status |-> out.status, grad_inp |-> <<>>, grad_grid |-> <<>>]
    ELSE GradsOf(out,
                 ScatterAdd(out.nbhd, goflat, Rows(shape), shape[2],
                            shape[1] * P, 4 * shape[1] * P),
                 goflat, im, shape, P)

\* transformer_gradi_impl recomputing the forward pass without border_mode
transformer_gradi_impl_nomode(im, shape, g, gshape, go, mode, nf) ==
    GradIFrom(transformer_sampler_impl(im, shape, g, gshape, "nearest", nf),
              GradOutFlat(go, shape, gshape[3] * gshape[4]),
              im, shape, gshape[3] * gshape[4])

\* result of transformer_gradi_impl(inp, grid, grad_out, border_mode)
transformer_gradi_impl(im, shape, g, gshape, go, mode, nf) ==
    GradIFrom(transformer_sampler_impl(im, shape, g, gshape, mode, nf),
              GradOutFlat(go, shape, gshape[3] * gshape[4]),
              im, shape, gshape[3] * gshape[4])

(***************************************************************************)
(* transformer_gradt_impl                                                   *)
(***************************************************************************)
\* the gradient of dot(theta, grid) w.r.t. theta: gg[b] . grid^T
GradThetaFrom(out, gg, Nt, P) ==
    IF out.status # "ok"
    THEN [status |-> out.status, grad_theta |-> <<>>]
    ELSE [status |-> "ok",
          grad_theta |-> [b \in Idx(Nt) |-> [r \in Idx(2) |-> [k \in Idx(3) |->
              FSum([p \in Idx(P) |-> FMul(gg[r][b][p], out.mesh[k + 1][p])],
                   P)]]]]

\* transformer_gradt_impl unpacking grad_grid.shape[2:] in the wrong order
transformer_gradt_impl_swapped(th, gg, ggshape) ==
    GradThetaFrom(
        transformer_grid_impl(th, <<Cardinality(DOMAIN th), 1, ggshape[4],
                                    ggshape[3]>>),
        gg, Cardinality(DOMAIN th), ggshape[3] * ggshape[4])

\* result of transformer_gradt_impl(theta, grad_grid)
transformer_gradt_impl(th, gg, ggshape) ==
    GradThetaFrom(
        transformer_grid_impl(th, <<Cardinality(DOMAIN th), 1, ggshape[3],
                                    ggshape[4]>>),
        gg, Cardinality(DOMAIN th), ggshape[3] * ggshape[4])

(***************************************************************************)
(* spatialtf                                                                *)
(***************************************************************************)
\* border mode of AbstractTransformerSampler() built without arguments
SamplerOpDefaultMode == "nearest"

\* OutDim rounding up instead of truncating
OutDimCeil(scale, dim) == -((-(scale[1] * dim)) \div scale[2])

\* theano.tensor.cast(scale * dim, 'int64') for the symbolic output size
OutDim(scale, dim) == CastInt64(FMul(scale, FromInt(dim)), 0)

\* result of spatialtf(inp, theta, scale_height, scale_width, border_mode):
\* the out_dims handed to the grid Op and the mode of the sampler Op
spatialtf(ndim_i, ndim_t, shape, s_h, s_w, mode) ==
    IF ndim_i # 4 \/ ndim_t # 3
    THEN [status |-> "AssertionError", out_dims |-> <<>>, op_mode |-> ""]
    ELSE [status |-> "ok",
          out_dims |-> <<shape[1], shape[2], OutDim(s_h, shape[3]),
                         OutDim(s_w, shape[4])>>,
          op_mode |-> SamplerOpDefaultMode]

(***************************************************************************)
(* Inputs.                                                                  *)
(***************************************************************************)
Mat(a, b, c, d, e, f) ==
    [r \in Idx(2) |-> [k \in Idx(3) |->
        IF r = 0 THEN (IF k = 0 THEN a ELSE IF k = 1 THEN b ELSE c)
        ELSE (IF k = 0 THEN d ELSE IF k = 1 THEN e ELSE f)]]

IdentityTheta == Mat(One, Zero, Zero, Zero, One, Zero)

\* a quarter turn with a zoom and a shift
TurnTheta == Mat(Zero, Q(1, 2), Q(1, 4), FromInt(-1), Zero, Zero)

Thetas == {IdentityTheta, TurnTheta}

Scales == {Q(1, 2), One, Q(3, 2)}

ModeArgs == Modes \cup {"bilinear"}

\* an image with pairwise distinct pixel values
Image(shape) ==
    [b \in Idx(shape[1]) |-> [c \in Idx(shape[2]) |-> [h \in Idx(shape[3]) |->
        [w \in Idx(shape[4]) |->
            1 + w + shape[4] * (h + shape[3] * (c + shape[2] * b))]]]]

Shapes(maxh, maxw) ==
    {<<n, c, h, w>> : n \in 1 .. MaxBatch, c \in 1 .. MaxChan,
                      h \in 1 .. maxh, w \in 1 .. maxw}

Unset ==
    /\ op_border_mode = ""
    /\ out_dims = <<>>
    /\ mesh = <<>>
    /\ nbhd = <<>>
    /\ output = <<>>
    /\ grad_out = <<>>
    /\ grad_inp = <<>>
    /\ grad_theta = <<>>

(***************************************************************************)
(* The forward graph built by spatialtf and its evaluation.                 *)
(***************************************************************************)
Init ==
    /\ pc = "call"
    /\ inp_ndim \in {3, 4}
    /\ theta_ndim \in {2, 3}
    /\ IF inp_ndim = 4
       THEN inp_shape \in Shapes(MaxDim, MaxDim)
       ELSE inp_shape = <<1, 2, 2>>
    /\ inp = IF inp_ndim = 4 THEN Image(inp_shape) ELSE <<>>
    /\ IF theta_ndim = 3
       THEN \E nt \in 1 .. MaxBatch, t \in Thetas : theta = [b \in Idx(nt) |-> t]
       ELSE theta \in Thetas
    /\ scale_height \in Scales
    /\ scale_width \in Scales
    /\ border_mode \in ModeArgs
    /\ nan_cast \in NonFiniteCasts
    /\ grid = <<>>
    /\ grid_shape = <<>>
    /\ grad_grid = <<>>
    /\ Unset

Call ==
    /\ pc = "call"
    /\ \E r \in {spatialtf(inp_ndim, theta_ndim, inp_shape, scale_height,
                          scale_width, border_mode)} :
           /\ pc' = IF r.status = "ok" THEN "grid" ELSE r.status
           /\ out_dims' = r.out_dims
           /\ op_border_mode' = r.op_mode
    /\ UNCHANGED <<inp_ndim, theta_ndim, inp_shape, inp, theta, scale_height,
                   scale_width, border_mode, mesh, grid, grid_shape, nbhd,
                   output, grad_out, grad_inp, grad_grid, grad_theta,
                   nan_cast>>

GridOp ==
    /\ pc = "grid"
    /\ \E r \in {transformer_grid_impl(theta, out_dims)} :
           /\ pc' = IF r.status = "ok" THEN "sample" ELSE r.status
           /\ mesh' = r.mesh
           /\ grid' = r.grid
           /\ grid_shape' = r.shape
    /\ UNCHANGED <<inp_ndim, theta_ndim, inp_shape, inp, theta, scale_height,
                   scale_width, border_mode, op_border_mode, out_dims, nbhd,
                   output, grad_out, grad_inp, grad_grid, grad_theta,
                   nan_cast>>

SamplerOp ==
    /\ pc = "sample"
    /\ \E r \in {transformer_sampler_impl(inp, inp_shape, grid, grid_shape,
                                          op_border_mode, nan_cast)} :
           /\ pc' = IF r.status = "ok" THEN "done" ELSE r.status
           /\ nbhd' = r.nbhd
           /\ output' = r.output
    /\ UNCHANGED <<inp_ndim, theta_ndim, inp_shape, inp, theta, scale_height,
                   scale_width, border_mode, op_border_mode, out_dims, mesh,
                   grid, grid_shape, grad_out, grad_inp, grad_grid, grad_theta,
                   nan_cast>>

Next == Call \/ GridOp \/ SamplerOp

Spec == Init /\ [][Next]_vars

(***************************************************************************)
(* Direct calls of the sampler and of its backward pass on a given grid.    *)
(***************************************************************************)
\* grid points <<x, y>>: far below the range, inside it, on its border and
\* above it
GridPts == {<<Q(-20, 3), Q(-5, 3)>>, <<Q(-1, 3), Q(1, 2)>>, <<One, One>>,
            <<Q(28, 15), FromInt(2)>>}

GradSeeds == {1, -2}

\* an upstream gradient with pairwise distinct entries, scaled by seed
GradOut(seed, shape, P) ==
    [b \in Idx(shape[1]) |-> [c \in Idx(shape[2]) |-> [p \in Idx(P) |->
        FromInt(seed * (1 + c + shape[2] * (b * P + p)))]]]

InitSampler ==
    /\ pc = "sampler_call"
    /\ inp_ndim = 4
    /\ theta_ndim = 3
    /\ theta = <<>>
    /\ scale_height = One
    /\ scale_width = One
    /\ \E n \in 1 .. MaxBatch, h \in 1 .. MaxSH, w \in 1 .. MaxSW :
         \E ow \in 1 .. MaxLocs :
            /\ n * ow <= MaxLocs
            /\ inp_shape = <<n, MaxChan, h, w>>
            /\ grid_shape = <<2, n, 1, ow>>
            /\ \E pts \in [Idx(n) -> [Idx(ow) -> GridPts]] :
                  grid = [r \in Idx(2) |-> [b \in Idx(n) |->
                            [p \in Idx(ow) |-> pts[b][p][r + 1]]]]
    /\ inp = Image(inp_shape)
    /\ border_mode \in ModeArgs
    /\ nan_cast \in NonFiniteCasts
    /\ grad_grid = <<>>
    /\ Unset

SamplerCall ==
    /\ pc = "sampler_call"
    /\ \E r \in {transformer_sampler_impl(inp, inp_shape, grid, grid_shape,
                                          border_mode, nan_cast)} :
           /\ pc' = IF r.status = "ok" THEN "sampled" ELSE r.status
           /\ nbhd' = r.nbhd
           /\ output' = r.output
    /\ UNCHANGED <<inp_ndim, theta_ndim, inp_shape, inp, theta, scale_height,
                   scale_width, border_mode, op_border_mode, out_dims, mesh,
                   grid, grid_shape, grad_out, grad_inp, grad_grid, grad_theta,
                   nan_cast>>

GradICall ==
    /\ pc = "sampled"
    /\ \E go \in {GradOut(seed, inp_shape, grid_shape[3] * grid_shape[4]) :
                        seed \in GradSeeds} :
         /\ grad_out' = go
         /\ \E r \in {transformer_gradi_impl(inp, inp_shape, grid, grid_shape,
                                              go, border_mode, nan_cast)} :
                /\ pc' = IF r.status = "ok" THEN "grads" ELSE r.status
                /\ grad_inp' = r.grad_inp
                /\ grad_grid' = r.grad_grid
    /\ UNCHANGED <<inp_ndim, theta_ndim, inp_shape, inp, theta, scale_height,
                   scale_width, border_mode, op_border_mode, out_dims, mesh,
                   grid, grid_shape, nbhd, output, grad_theta, nan_cast>>

NextSampler == SamplerCall \/ GradICall

SpecSampler == InitSampler /\ [][NextSampler]_vars

(***************************************************************************)
(* Direct calls of the grid generator and of its backward pass.             *)
(***************************************************************************)
\* upstream gradients w.r.t. the grid: the unit tensors and a dense one
GradGrids(n, P) ==
    {[r \in Idx(2) |-> [b \in Idx(n) |-> [p \in Idx(P) |->
        IF (r * n + b) * P + p = e THEN One ELSE Zero]]] : e \in Idx(2 * n * P)}
    \cup {[r \in Idx(2) |-> [b \in Idx(n) |-> [p \in Idx(P) |->
            FromInt(1 + r - 2 * b + 3 * p)]]]}

InitGrid ==
    /\ pc = "grid_call"
    /\ inp_ndim = 4
    /\ theta_ndim = 3
    /\ inp_shape = <<>>
    /\ inp = <<>>
    /\ \E n \in 1 .. MaxBatch :
         /\ theta \in [Idx(n) -> Thetas]
         /\ \E oh \in 1 .. MaxDim, ow \in 1 .. MaxDim :
               out_dims = <<n, 1, oh, ow>>
    /\ scale_height = One
    /\ scale_width = One
    /\ border_mode = "nearest"
    /\ nan_cast \in NonFiniteCasts
    /\ op_border_mode = ""
    /\ mesh = <<>>
    /\ grid = <<>>
    /\ grid_shape = <<>>
    /\ nbhd = <<>>
    /\ output = <<>>
    /\ grad_out = <<>>
    /\ grad_inp = <<>>
    /\ grad_grid = <<>>
    /\ grad_theta = <<>>

GridCall ==
    /\ pc = "grid_call"
    /\ \E r \in {transformer_grid_impl(theta, out_dims)} :
           /\ pc' = IF r.status = "ok" THEN "grid_done" ELSE r.status
           /\ mesh' = r.mesh
           /\ grid' = r.grid
           /\ grid_shape' = r.shape
    /\ UNCHANGED <<inp_ndim, theta_ndim, inp_shape, inp, theta, scale_height,
                   scale_width, border_mode, op_border_mode, out_dims, nbhd,
                   output, grad_out, grad_inp, grad_grid, grad_theta,
                   nan_cast>>

GradTCall ==
    /\ pc = "grid_done"
    /\ \E gg \in GradGrids(grid_shape[2], grid_shape[3] * grid_shape[4]) :
         /\ grad_grid' = gg
         /\ \E r \in {transformer_gradt_impl(theta, gg, grid_shape)} :
                /\ pc' = IF r.status = "ok" THEN "gradt_done" ELSE r.status
                /\ grad_theta' = r.grad_theta
    /\ UNCHANGED <<inp_ndim, theta_ndim, inp_shape, inp, theta, scale_height,
                   scale_width, border_mode, op_border_mode, out_dims, mesh,
                   grid, grid_shape, nbhd, output, grad_out, grad_inp,
                   nan_cast>>

NextGrid == GridCall \/ GradTCall

SpecGrid == InitGrid /\ [][NextGrid]_vars

(***************************************************************************)
(* Properties.                                                              *)
(***************************************************************************)
Height == inp_shape[3]

Width == inp_shape[4]

Evaluating == {"call", "grid", "sample"}

\* spatialtf is called with the identity affine for every batch entry,
\* scale 1 and border mode nearest on an input with H >= 2 and W >= 2
IdentityCall ==
    /\ inp_ndim = 4
    /\ theta_ndim = 3
    /\ DOMAIN theta = Idx(inp_shape[1])
    /\ \A b \in DOMAIN theta : theta[b] = IdentityTheta
    /\ scale_height = One
    /\ scale_width = One
    /\ border_mode = "nearest"
    /\ Height >= 2
    /\ Width >= 2

FloorScaled(scale, dim) == (scale[1] * dim) \div scale[2]

\* C4: the output of spatialtf has shape
\* (N, C, floor(scale_height * H), floor(scale_width * W)).
C4_ShapeContract ==
    pc = "done" =>
        /\ output.shape = <<inp_shape[1], inp_shape[2],
                            FloorScaled(scale_height, Height),
                            FloorScaled(scale_width, Width)>>
        /\ DOMAIN output.data = Idx(inp_shape[1])
        /\ \A b \in DOMAIN output.data :
              /\ DOMAIN output.data[b] = Idx(inp_shape[2])
              /\ \A c \in DOMAIN output.data[b] :
                    DOMAIN output.data[b][c] =
                        Idx(FloorScaled(scale_height, Height)
                            * FloorScaled(scale_width, Width))

C4_Witness ==
    /\ pc = "done"
    /\ inp_shape = <<2, 1, 3, 3>>
    /\ scale_height = Q(3, 2)
    /\ scale_width = Q(3, 2)
    /\ output.shape = <<2, 1, 4, 4>>

\* C5: a border mode other than nearest, mirror or wrap is rejected with a
\* configuration error before any further evaluation, and the mode given to
\* spatialtf is the mode the sampler applies.
C5_UnknownModeRejected ==
    /\ border_mode \notin Modes =>
          pc \in {"call", "sampler_call", "AssertionError", "ValueError"}
    /\ pc = "done" => op_border_mode = border_mode

BatchMismatch ==
    /\ inp_ndim = 4
    /\ theta_ndim = 3
    /\ Cardinality(DOMAIN theta) # inp_shape[1]

\* C6: a call of spatialtf with an input of rank other than 4, a theta of
\* rank other than 3 or differing batch sizes is rejected by the call itself.
C6_PreconditionsRejected ==
    (inp_ndim # 4 \/ theta_ndim # 3 \/ BatchMismatch) =>
        pc \in {"call", "AssertionError"}

\* C7: with an output height or width of 1 the generated mesh and grid hold
\* no undefined (NaN) value.
C7_DegenerateGridDefined ==
    (pc = "grid_done" /\ (out_dims[3] = 1 \/ out_dims[4] = 1)) =>
        /\ \A k \in DOMAIN mesh : \A p \in DOMAIN mesh[k] : ~IsNaN(mesh[k][p])
        /\ \A r \in DOMAIN grid : \A b \in DOMAIN grid[r] :
              \A p \in DOMAIN grid[r][b] : ~IsNaN(grid[r][b][p])

(***************************************************************************)
(* Properties of the sampler.                                               *)
(***************************************************************************)
Min(a, b) == IF a < b THEN a ELSE b

Clamp(v, lo, hi) == IF v < lo THEN lo ELSE IF v > hi THEN hi ELSE v

\* the border-policy table on an integer floor coordinate v and an axis of
\* size dim
TableIndex(mode, v, dim) ==
    IF mode = "nearest" THEN Clamp(v, 0, dim - 1)
    ELSE IF mode = "wrap" THEN v % dim
    ELSE Min(v % (2 * (dim - 1)), (-v) % (2 * (dim - 1)))

\* the table's floating expression is a modulo by zero, which is NaN
TableIsNaN(mode, dim) == mode = "mirror" /\ dim = 1

\* the index the table gives is the one used (the cast of NaN where the
\* table's expression is NaN)
FollowsTable(idx, mode, v_f, dim) ==
    /\ v_f[2] = 1
    /\ IF TableIsNaN(mode, dim)
       THEN idx = nan_cast
       ELSE idx = TableIndex(mode, v_f[1], dim)

Gathered == pc \in {"sampled", "grads", "IndexError"}

\* C2: the gather indices follow the border-policy table for every floor
\* coordinate, x1_f = x0_f + 1 and y1_f = y0_f + 1; for W = 4 and x = 4.3
\* nearest gives 3 for x0 and x1, wrap gives x0 = 0 and x1 = 1.
C2_BorderTable ==
    Gathered =>
        \A q \in DOMAIN nbhd :
            LET n == nbhd[q]
            IN  /\ n.x1_f = FAdd(n.x0_f, One)
                /\ n.y1_f = FAdd(n.y0_f, One)
                /\ FollowsTable(n.x0, border_mode, n.x0_f, Width)
                /\ FollowsTable(n.x1, border_mode, n.x1_f, Width)
                /\ FollowsTable(n.y0, border_mode, n.y0_f, Height)
                /\ FollowsTable(n.y1, border_mode, n.y1_f, Height)
                /\ (Width = 4 /\ n.x = Q(43, 10) /\ border_mode = "nearest")
                      => (n.x0 = 3 /\ n.x1 = 3)
                /\ (Width = 4 /\ n.x = Q(43, 10) /\ border_mode = "wrap")
                      => (n.x0 = 0 /\ n.x1 = 1)

C2_Witness ==
    /\ pc = "sampled"
    /\ border_mode = "mirror"
    /\ Width = 4
    /\ Height = 2
    /\ \E q \in DOMAIN nbhd :
          nbhd[q].x = Q(43, 10) /\ nbhd[q].x0 = 2 /\ nbhd[q].x1 = 1
    /\ \E q \in DOMAIN nbhd : nbhd[q].x0_f = FromInt(-9)

\* C3: the four interpolation weights of every output location sum to 1,
\* for every border mode and every grid value.
C3_WeightSum ==
    Gathered =>
        \A q \in DOMAIN nbhd :
            FAdd(FAdd(FAdd(nbhd[q].w.wa, nbhd[q].w.wb), nbhd[q].w.wc),
                 nbhd[q].w.wd) = One

\* an out-of-range location whose index was adjusted, with fractional weights
C3_Witness ==
    /\ pc = "sampled"
    /\ \E q \in DOMAIN nbhd :
          /\ nbhd[q].x0 # nbhd[q].x0_f[1]
          /\ nbhd[q].y1 # nbhd[q].y1_f[1]
          /\ nbhd[q].w.wa[2] > 1
          /\ nbhd[q].w.wd[2] > 1

\* C9: every gather index stays inside the input and inside the batch entry
\* of its output location.
C9_GatherInBounds ==
    Gathered =>
        \A q \in DOMAIN nbhd :
            LET n == nbhd[q]
            IN  /\ \A x \in {n.x0, n.x1} : 0 <= x /\ x <= Width - 1
                /\ \A y \in {n.y0, n.y1} : 0 <= y /\ y <= Height - 1
                /\ \A i \in {n.idx_a, n.idx_b, n.idx_c, n.idx_d} :
                      /\ n.b * Height * Width <= i
                      /\ i < (n.b + 1) * Height * Width

Locs == grid_shape[3] * grid_shape[4]

\* the sum of weight * grad_out over the corners that gathered row `row`
GatheredGradient(row, c) ==
    FSum([j \in Idx(4 * inp_shape[1] * Locs) |->
            IF GatherRow(CornerIdx(nbhd[j \div 4], j % 4), Rows(inp_shape)) = row
            THEN FMul(CornerW(nbhd[j \div 4], j % 4),
                      grad_out[(j \div 4) \div Locs][c][(j \div 4) % Locs])
            ELSE Zero],
         4 * inp_shape[1] * Locs)

\* C8: the gradient w.r.t. every input pixel is the sum, over all output
\* locations and corners that gathered the pixel in the forward pass, of
\* weight * grad_out; a pixel gathered by none has gradient 0.
C8_ScatterAdd ==
    pc = "grads" =>
        \A b \in Idx(inp_shape[1]), c \in Idx(inp_shape[2]),
           h \in Idx(Height), w \in Idx(Width) :
            grad_inp[b][c][h][w] =
                GatheredGradient((b * Height + h) * Width + w, c)

\* two distinct locations gather one pixel with non-zero weight, the gradient
\* there is more than either contribution, and another pixel is not gathered
C8_Witness ==
    /\ pc = "grads"
    /\ border_mode = "wrap"
    /\ \E q1, q2 \in DOMAIN nbhd :
          /\ q1 # q2
          /\ nbhd[q1].idx_a = nbhd[q2].idx_a
          /\ nbhd[q1].idx_a = 0
          /\ nbhd[q1].w.wa[1] > 0
          /\ nbhd[q2].w.wa[1] > 0
          /\ nbhd[q1].x0 # Clamp(nbhd[q1].x0_f[1], 0, Width - 1)
          /\ FLt(FMul(nbhd[q1].w.wa, grad_out[0][0][q1]), grad_inp[0][0][0][0])
          /\ FLt(FMul(nbhd[q2].w.wa, grad_out[0][0][q2]), grad_inp[0][0][0][0])
    /\ \E h \in Idx(Height), w \in Idx(Width) : grad_inp[0][0][h][w] = Zero

(***************************************************************************)
(* Properties of the grid generator's backward pass.                        *)
(***************************************************************************)
\* coordinate i of num points linearly spaced from -1 to 1
Spaced(i, num) == Q(2 * i - (num - 1), num - 1)

\* C10: for out_height >= 2 and out_width >= 2 the gradient w.r.t. theta is
\* grad_grid times the transpose of the mesh that grid generation built for
\* the same output shape, whose rows are x, y and 1 with x and y linearly
\* spaced from -1 to 1.
C10_GridBackward ==
    (pc = "gradt_done" /\ grid_shape[3] >= 2 /\ grid_shape[4] >= 2) =>
        /\ \A p \in Idx(grid_shape[3] * grid_shape[4]) :
              /\ mesh[1][p] = Spaced(p % grid_shape[4], grid_shape[4])
              /\ mesh[2][p] = Spaced(p \div grid_shape[4], grid_shape[3])
              /\ mesh[3][p] = One
        /\ \A b \in Idx(grid_shape[2]), r \in Idx(2), k \in Idx(3) :
              grad_theta[b][r][k] =
                  FSum([p \in Idx(grid_shape[3] * grid_shape[4]) |->
                          FMul(grad_grid[r][b][p], mesh[k + 1][p])],
                       grid_shape[3] * grid_shape[4])

C10_Witness ==
    /\ pc = "gradt_done"
    /\ grid_shape = <<2, 2, 2, 3>>
    /\ theta[0] # theta[1]
    /\ grad_theta[1][0][0] = Q(1, 1)
    /\ grad_theta[1][0][1] = FromInt(-1)

====
